---- MODULE Spec2Model ----
(***************************************************************************)
(* The XML endpoints of app/main.py: /xml/format, /xml/minify and          *)
(* /xml/convert.  A request is resolved to one input string, stripped,     *)
(* validated by the entity-safe parser and then transformed.               *)
(*                                                                         *)
(* Strings are sequences of tokens.  A token is one character (a code      *)
(* point), one byte, or one piece of XML markup whose bytes are all ASCII  *)
(* (a start tag, an end tag, an empty-element tag, a comment, an XML       *)
(* declaration, a DOCTYPE with an internal entity declaration).  A text    *)
(* value is a token sequence followed by a run of `pad` space characters,  *)
(* so that inputs of a million bytes stay small values.                    *)
(***************************************************************************)
EXTENDS Integers, Sequences, FiniteSets, TLC

\* ------------------------------------------------------------------ bounds
\* Number of content chunks between the root's tags in the generated inputs.
MaxBody == 3
\* Number of chunks in the generated parser diagnostics.
MaxMsg == 3

\* ------------------------------------------------------- program constants
MAX_XML_BYTES == 1000000

\* ------------------------------------------------------------------ tokens
\* k: the kind; tag: an element's name (a declaration's encoding); attr: the
\* value of the element's attribute k="...", as code points, <<>> when it has
\* none; cp: a character's code point, a byte's value.
Tok(k, tag, attr, cp) == [k |-> k, tag |-> tag, attr |-> attr, cp |-> cp]

Open(tag, attr)  == Tok("open", tag, attr, 0)
Close(tag)       == Tok("close", tag, <<>>, 0)
\* cp of an empty-element tag: 1 when written "<i />", 0 when written "<i/>"
Empty(tag, attr, sp) == Tok("empty", tag, attr, sp)
\* <!--c-->
Comment          == Tok("comment", "", <<>>, 0)
\* <?xml version="1.0"?>, with encoding="enc" when enc is not ""; sp is 1 for
\* the form minidom writes, <?xml version="1.0" ?>
Decl(enc, sp)    == Tok("decl", enc, <<>>, sp)
\* <!DOCTYPE r [<!ENTITY e "v">]>
Doctype          == Tok("doctype", "", <<>>, 0)
Chr(cp)          == Tok("chr", "", <<>>, cp)
Byte(b)          == Tok("byte", "", <<>>, b)

Space   == Chr(32)
Newline == Chr(10)

Str(cps) == [i \in 1..Len(cps) |-> Chr(cps[i])]

RECURSIVE Concat(_)
Concat(ss) == IF ss = <<>> THEN <<>> ELSE Head(ss) \o Concat(Tail(ss))

RECURSIVE Repeat(_, _)
Repeat(t, n) == IF n <= 0 THEN <<>> ELSE <<t>> \o Repeat(t, n - 1)

\* the bytes of  k="..."  with the space before it
AttrBytes(a) == IF a = <<>> THEN 0 ELSE 4 + Len(a) + 1

\* Bytes a token takes in UTF-8 (for a byte token: one).
TokBytes(t) ==
    CASE t.k = "open"    -> 3 + AttrBytes(t.attr)
      [] t.k = "close"   -> 4
      [] t.k = "empty"   -> 4 + t.cp + AttrBytes(t.attr)
      [] t.k = "comment" -> 8
      [] t.k = "decl"    -> 21 + t.cp + (IF t.tag = "" THEN 0 ELSE 22)
      [] t.k = "doctype" -> 30
      [] t.k = "chr"     -> IF t.cp < 128 THEN 1 ELSE 2
      [] t.k = "byte"    -> 1

RECURSIVE SumBytes(_)
SumBytes(s) == IF s = <<>> THEN 0 ELSE TokBytes(Head(s)) + SumBytes(Tail(s))

\* len(contents) of an upload, len(raw.encode("utf-8")) of a string
ByteLen(txt) == SumBytes(txt.toks) + txt.pad

\* ----------------------------------------------------- encoding, decoding
\* str.encode("utf-8"): code points below 128 are one byte, the others (all
\* below 2048 here) two; markup tokens are ASCII and stand for their bytes.
EncodeTok(t) ==
    IF t.k = "chr" /\ t.cp >= 128
    THEN <<Byte(192 + (t.cp \div 64)), Byte(128 + (t.cp % 64))>>
    ELSE <<t>>

EncodeUtf8(s) == Concat([i \in 1..Len(s) |-> EncodeTok(s[i])])

IsLead(t) == t.k = "byte" /\ t.cp >= 194 /\ t.cp <= 223
IsCont(t) == t.k = "byte" /\ t.cp >= 128 /\ t.cp <= 191

RECURSIVE ValidUtf8(_)
ValidUtf8(bs) ==
    IF bs = <<>> THEN TRUE
    ELSE IF Head(bs).k # "byte" \/ Head(bs).cp < 128 THEN ValidUtf8(Tail(bs))
    ELSE IF IsLead(Head(bs)) /\ Len(bs) >= 2 /\ IsCont(bs[2])
         THEN ValidUtf8(Tail(Tail(bs)))
         ELSE FALSE

RECURSIVE DecodeUtf8(_)
DecodeUtf8(bs) ==
    IF bs = <<>> THEN <<>>
    ELSE IF Head(bs).k # "byte" THEN <<Head(bs)>> \o DecodeUtf8(Tail(bs))
    ELSE IF Head(bs).cp < 128 THEN <<Chr(Head(bs).cp)>> \o DecodeUtf8(Tail(bs))
    ELSE <<Chr((Head(bs).cp - 192) * 64 + (bs[2].cp - 128))>>
            \o DecodeUtf8(Tail(Tail(bs)))

\* bytes.decode("latin-1"): every byte is the code point of its value
DecodeLatin1(bs) ==
    [i \in 1..Len(bs) |-> IF bs[i].k = "byte" THEN Chr(bs[i].cp) ELSE bs[i]]

\* contents.decode("utf-8"), falling back to latin-1 when that raises
DecodeUpload(bs) == IF ValidUtf8(bs) THEN DecodeUtf8(bs) ELSE DecodeLatin1(bs)

\* -------------------------------------------------------------- whitespace
\* str.isspace() on the code points of the model
IsPySpace(t) == t.k = "chr" /\ t.cp \in {9, 10, 11, 12, 13, 32, 133, 160}
\* the S production of XML
IsXmlSpace(t) == t.k = "chr" /\ t.cp \in {9, 10, 13, 32}

RECURSIVE LStrip(_)
LStrip(s) == IF s # <<>> /\ IsPySpace(Head(s)) THEN LStrip(Tail(s)) ELSE s

RECURSIVE RStrip(_)
RStrip(s) ==
    IF s # <<>> /\ IsPySpace(s[Len(s)]) THEN RStrip(SubSeq(s, 1, Len(s) - 1)) ELSE s

\* str.strip() of a token sequence
StripSeq(s) == RStrip(LStrip(s))

\* the strip left out
StripForgotten(txt) == txt.toks

\* raw.strip(): the trailing run of spaces goes with the other whitespace
Strip(txt) == StripSeq(txt.toks)

\* ------------------------------------------------------------ the parsers
\* A node of a parsed document: an element (tag, attr, kids), a text node
\* (data), a comment, or the document type.
Node(t, tag, attr, kids, data) ==
    [t |-> t, tag |-> tag, attr |-> attr, kids |-> kids, data |-> data]

Elem(tag, attr, kids) == Node("elem", tag, attr, kids, <<>>)
Text(data)            == Node("text", "", <<>>, <<>>, data)
CommentNode           == Node("comment", "", <<>>, <<>>, <<>>)
DoctypeNode           == Node("doctype", "", <<>>, <<>>, <<>>)

\* Character data is appended to the text node before it (expat reports it in
\* pieces, the builders join the pieces).
AddChar(c, kids) ==
    IF kids # <<>> /\ Head(kids).t = "text"
    THEN <<Text(<<c>> \o Head(kids).data)>> \o Tail(kids)
    ELSE <<Text(<<c>>)>> \o kids

Failed == [ok |-> FALSE, kids |-> <<>>, next |-> 0]

\* The content from token i up to the end tag that closes it (or the end of
\* the input): [ok, kids, next], next the position of that end tag.
RECURSIVE ParseContent(_, _, _)
ParseContent(toks, i, top) ==
    IF i > Len(toks) THEN [ok |-> TRUE, kids |-> <<>>, next |-> i]
    ELSE LET t == toks[i] IN
      CASE t.k = "close" -> [ok |-> TRUE, kids |-> <<>>, next |-> i]
        [] t.k = "chr" ->
             LET r == ParseContent(toks, i + 1, top) IN
             IF r.ok THEN [r EXCEPT !.kids = AddChar(t, r.kids)] ELSE Failed
        [] t.k = "comment" ->
             LET r == ParseContent(toks, i + 1, top) IN
             IF r.ok THEN [r EXCEPT !.kids = <<CommentNode>> \o r.kids] ELSE Failed
        [] t.k = "doctype" ->
             LET r == ParseContent(toks, i + 1, top) IN
             IF top /\ r.ok THEN [r EXCEPT !.kids = <<DoctypeNode>> \o r.kids]
             ELSE Failed
        [] t.k = "empty" ->
             LET r == ParseContent(toks, i + 1, top) IN
             IF r.ok THEN [r EXCEPT !.kids = <<Elem(t.tag, t.attr, <<>>)>> \o r.kids]
             ELSE Failed
        [] t.k = "open" ->
             LET in == ParseContent(toks, i + 1, FALSE) IN
             IF in.ok /\ in.next <= Len(toks) /\ toks[in.next] = Close(t.tag)
             THEN LET r == ParseContent(toks, in.next + 1, top) IN
                  IF r.ok
                  THEN [r EXCEPT !.kids = <<Elem(t.tag, t.attr, in.kids)>> \o r.kids]
                  ELSE Failed
             ELSE Failed
        [] OTHER -> Failed

IsBlankText(n) == n.t = "text" /\ \A i \in 1..Len(n.data) : IsXmlSpace(n.data[i])

Positions(kids, t) == {i \in 1..Len(kids) : kids[i].t = t}

\* The document production: an optional declaration first, then comments,
\* white space and at most one document type, one root element, then
\* comments and white space.
TopLevelOk(kids) ==
    /\ \A i \in Positions(kids, "text") : IsBlankText(kids[i])
    /\ Cardinality(Positions(kids, "elem")) = 1
    /\ Cardinality(Positions(kids, "doctype")) <= 1
    /\ \A d \in Positions(kids, "doctype") : \A e \in Positions(kids, "elem") : d < e

\* Parsing a string: [ok, kids], kids the document's children, the white
\* space outside the root element dropped.
ParseStr(s) ==
    LET body == IF s # <<>> /\ Head(s).k = "decl" THEN Tail(s) ELSE s
        r    == ParseContent(body, 1, TRUE)
    IN IF r.ok /\ r.next = Len(body) + 1 /\ TopLevelOk(r.kids)
       THEN [ok |-> TRUE, kids |-> SelectSeq(r.kids, LAMBDA n : n.t # "text")]
       ELSE [ok |-> FALSE, kids |-> <<>>]

\* The encoding a parser reads bytes in: the declaration's, UTF-8 without one.
DeclaredEncoding(bs) ==
    IF bs # <<>> /\ Head(bs).k = "decl" /\ Head(bs).tag # "" THEN Head(bs).tag
    ELSE "utf-8"

\* Parsing bytes: they are decoded as the declaration says, then parsed.
ParseBytes(bs) ==
    IF DeclaredEncoding(bs) = "iso-8859-1" THEN ParseStr(DecodeLatin1(bs))
    ELSE IF ValidUtf8(bs) THEN ParseStr(DecodeUtf8(bs))
    ELSE [ok |-> FALSE, kids |-> <<>>]

HasEntityDecl(kids) == Positions(kids, "doctype") # {}

\* the standard parser in place of defusedxml's
UnsafeParseOk(bs) == ParseBytes(bs).ok

\* defused_et.fromstring(bytes): the parse succeeds and no entity is declared
\* (forbid_entities is defusedxml's default, forbid_dtd is not).
SafeParseOk(bs) ==
    LET d == ParseBytes(bs) IN d.ok /\ ~HasEntityDecl(d.kids)

RootOf(kids) == kids[CHOOSE i \in Positions(kids, "elem") : TRUE]

\* ------------------------------------------------- the pretty-printer
Indent(n) == Repeat(Space, n)

\* Node.writexml(writer, indent, addindent, newl) of minidom, newl = "\n":
\* an element whose only child is a text node is written on one line, any
\* other child goes on lines of its own, one indentation unit deeper.
RECURSIVE WriteXml(_, _, _)
WriteXml(n, ind, add) ==
    CASE n.t = "text"    -> Indent(ind) \o n.data \o <<Newline>>
      [] n.t = "comment" -> Indent(ind) \o <<Comment, Newline>>
      [] n.t = "doctype" -> <<Doctype, Newline>>
      [] n.t = "elem" ->
           IF n.kids = <<>>
           THEN Indent(ind) \o <<Empty(n.tag, n.attr, 0), Newline>>
           ELSE IF Len(n.kids) = 1 /\ n.kids[1].t = "text"
           THEN Indent(ind) \o <<Open(n.tag, n.attr)>> \o n.kids[1].data
                    \o <<Close(n.tag), Newline>>
           ELSE Indent(ind) \o <<Open(n.tag, n.attr), Newline>>
                    \o Concat([i \in 1..Len(n.kids) |->
                                   WriteXml(n.kids[i], ind + add, add)])
                    \o Indent(ind) \o <<Close(n.tag), Newline>>

\* dom.toprettyxml(indent=" " * indent)
ToPrettyXml(kids, indent) ==
    <<Decl("", 1), Newline>>
        \o Concat([i \in 1..Len(kids) |-> WriteXml(kids[i], 0, indent)])

\* str.splitlines()
RECURSIVE SplitLines(_, _)
SplitLines(s, cur) ==
    IF s = <<>> THEN (IF cur = <<>> THEN <<>> ELSE <<cur>>)
    ELSE IF Head(s) = Newline THEN <<cur>> \o SplitLines(Tail(s), <<>>)
    ELSE SplitLines(Tail(s), Append(cur, Head(s)))

\* line.strip() != ""
NotBlank(line) == StripSeq(line) # <<>>

RECURSIVE JoinLines(_)
JoinLines(ls) ==
    IF ls = <<>> THEN <<>>
    ELSE IF Len(ls) = 1 THEN ls[1]
    ELSE ls[1] \o <<Newline>> \o JoinLines(Tail(ls))

\* the filter left out
KeepBlankLines(s) == s

\* "\n".join([line for line in pretty.splitlines() if line.strip() != ""])
DropBlankLines(s) == JoinLines(SelectSeq(SplitLines(s, <<>>), NotBlank))

\* any positive width taken as it is
IndentOfAnyPositive(indent_spaces) == IF indent_spaces > 0 THEN indent_spaces ELSE 4

\* int(indent_spaces) if int(indent_spaces) in (2, 3, 4) else int(4)
IndentOf(indent_spaces) == IF indent_spaces \in {2, 3, 4} THEN indent_spaces ELSE 4

\* The try block of xml_format: minidom parses the encoded bytes again.
PrettyPrint(raw_stripped, indent_spaces) ==
    DropBlankLines(ToPrettyXml(ParseBytes(EncodeUtf8(raw_stripped)).kids,
                               IndentOf(indent_spaces)))

\* -------------------------------------------------------------- the minifier
\* What ElementTree's parser keeps of an element's content: comments are not
\* reported to the tree builder, so the text around them is one text.
RECURSIVE ETKids(_)
ETKids(kids) ==
    IF kids = <<>> THEN <<>>
    ELSE LET n == Head(kids)  r == ETKids(Tail(kids)) IN
      CASE n.t = "comment" -> r
        [] n.t = "doctype" -> r
        [] n.t = "text" ->
             IF r # <<>> /\ Head(r).t = "text"
             THEN <<Text(n.data \o Head(r).data)>> \o Tail(r)
             ELSE <<n>> \o r
        [] n.t = "elem" -> <<Elem(n.tag, n.attr, ETKids(n.kids))>> \o r

\* ET.fromstring(raw): the root element
ETFromString(raw) == RootOf(ETKids(ParseStr(raw).kids))

\* ET.tostring(tree, encoding="utf-8").decode("utf-8"): no declaration, an
\* element without content as <tag />
RECURSIVE ETToString(_)
ETToString(n) ==
    IF n.t = "text" THEN n.data
    ELSE IF n.kids = <<>> THEN <<Empty(n.tag, n.attr, 1)>>
    ELSE <<Open(n.tag, n.attr)>>
            \o Concat([i \in 1..Len(n.kids) |-> ETToString(n.kids[i])])
            \o <<Close(n.tag)>>

\* The try block of xml_minify: ElementTree parses the string, not its bytes.
Minify(raw) == ETToString(ETFromString(raw))

\* ------------------------------------------------------------- JSON values
\* j: "null", "str" (s, a token sequence), "int" (n), "map" (items, a sequence
\* of [key, val] in key order), "list" (items, a sequence of values), or
\* "msg": an error text, text the f-string's fixed words, n the byte count
\* and s the library's message put into it.
J(j, text, n, s, items) == [j |-> j, text |-> text, n |-> n, s |-> s, items |-> items]

JNull       == J("null", "", 0, <<>>, <<>>)
JStr(s)     == J("str", "", 0, s, <<>>)
JInt(n)     == J("int", "", n, <<>>, <<>>)
JMap(items) == J("map", "", 0, <<>>, items)
JList(vals) == J("list", "", 0, <<>>, vals)
JMsg(text, n, s) == J("msg", text, n, s, <<>>)

Pair(key, val) == [key |-> key, val |-> val]

KeysOf(m) == [i \in 1..Len(m.items) |-> m.items[i].key]

HasKey(m, key) == \E i \in 1..Len(m.items) : m.items[i].key = key

Get(m, key) == m.items[CHOOSE i \in 1..Len(m.items) : m.items[i].key = key].val

\* ------------------------------------------------------------- xmltodict
\* item[key] = data, whatever was there
PushDataOverwrite(item, key, data) ==
    LET m == IF item.j = "null" THEN JMap(<<>>) ELSE item IN
    IF HasKey(m, key)
    THEN JMap([i \in 1..Len(m.items) |->
                 IF m.items[i].key # key THEN m.items[i] ELSE Pair(key, data)])
    ELSE JMap(Append(m.items, Pair(key, data)))

\* _DictSAXHandler.push_data: a key seen again turns its value into a list,
\* or extends the list it already is.
PushData(item, key, data) ==
    LET m == IF item.j = "null" THEN JMap(<<>>) ELSE item IN
    IF HasKey(m, key)
    THEN JMap([i \in 1..Len(m.items) |->
                 IF m.items[i].key # key THEN m.items[i]
                 ELSE IF m.items[i].val.j = "list"
                      THEN Pair(key, JList(Append(m.items[i].val.items, data)))
                      ELSE Pair(key, JList(<<m.items[i].val, data>>))])
    ELSE JMap(Append(m.items, Pair(key, data)))

\* startElement ... endElement for one element: the attributes first (keys
\* with the "@" prefix), the child elements as they end, the character data
\* of the element joined, stripped and put last under "#text"; an element
\* with neither attributes nor children is its stripped text, None when
\* that is empty.
RECURSIVE ConvertElem(_)
RECURSIVE ConvertKids(_, _)
ConvertKids(kids, acc) ==
    IF kids = <<>> THEN acc
    ELSE LET n == Head(kids) IN
      CASE n.t = "text" ->
             ConvertKids(Tail(kids), [acc EXCEPT !.data = acc.data \o n.data])
        [] n.t = "elem" ->
             ConvertKids(Tail(kids),
                 [acc EXCEPT !.item = PushData(acc.item, n.tag, ConvertElem(n))])
        [] OTHER -> ConvertKids(Tail(kids), acc)

ConvertElem(n) ==
    LET attrs == IF n.attr = <<>> THEN JNull
                 ELSE JMap(<<Pair("@k", JStr(Str(n.attr)))>>)
        acc   == ConvertKids(n.kids, [item |-> attrs, data |-> <<>>])
        data  == StripSeq(acc.data)
    IN IF acc.item.j # "null"
       THEN (IF data # <<>> THEN PushData(acc.item, "#text", JStr(data))
             ELSE acc.item)
       ELSE (IF data # <<>> THEN JStr(data) ELSE JNull)

\* xmltodict.parse(raw): the string is encoded and parsed as UTF-8 whatever
\* its declaration says; comments are not processed.
XmlToDict(raw) ==
    LET root == RootOf(ParseStr(raw).kids) IN
    PushData(JNull, root.tag, ConvertElem(root))

\* ---------------------------------------------------- _extract_error_line
\* A message is a sequence of code points.
Lower(c) == IF c >= 65 /\ c <= 90 THEN c + 32 ELSE c
\* \s and \d of re on str patterns, on the code points of the model
IsReSpace(c) == c \in {9, 10, 11, 12, 13, 28, 29, 30, 31, 32, 133, 160}
IsDigit(c) == c >= 48 /\ c <= 57

\* the length of the run of white space (\s+ is greedy) from position p
RECURSIVE SpaceRun(_, _)
SpaceRun(msg, p) ==
    IF p <= Len(msg) /\ IsReSpace(msg[p]) THEN 1 + SpaceRun(msg, p + 1) ELSE 0

\* the length of the run of digits (\d+ is greedy) from position p
RECURSIVE DigitRun(_, _)
DigitRun(msg, p) ==
    IF p <= Len(msg) /\ IsDigit(msg[p]) THEN 1 + DigitRun(msg, p + 1) ELSE 0

\* l i n e
LineWord == <<108, 105, 110, 101>>

\* the pattern without re.IGNORECASE
MatchAtCaseSensitive(msg, p) ==
    /\ p + 3 <= Len(msg)
    /\ \A k \in 1..4 : msg[p + k - 1] = LineWord[k]
    /\ SpaceRun(msg, p + 4) >= 1
    /\ DigitRun(msg, p + 4 + SpaceRun(msg, p + 4)) >= 1

\* re.match of  line\s+(\d+)  at position p, ignoring case
MatchAt(msg, p) ==
    /\ p + 3 <= Len(msg)
    /\ \A k \in 1..4 : Lower(msg[p + k - 1]) = LineWord[k]
    /\ SpaceRun(msg, p + 4) >= 1
    /\ DigitRun(msg, p + 4 + SpaceRun(msg, p + 4)) >= 1

\* int(m.group(1))
RECURSIVE IntOf(_)
IntOf(ds) ==
    IF ds = <<>> THEN 0
    ELSE IntOf(SubSeq(ds, 1, Len(ds) - 1)) * 10 + (ds[Len(ds)] - 48)

\* _extract_error_line: JNull for None
extract_error_line(msg) ==
    IF msg = <<>> THEN JNull
    ELSE LET ps == {p \in 1..Len(msg) : MatchAt(msg, p)} IN
         IF ps = {} THEN JNull
         ELSE LET p  == CHOOSE q \in ps : \A o \in ps : q <= o
                  d0 == p + 4 + SpaceRun(msg, p + 4)
              IN JInt(IntOf(SubSeq(msg, d0, d0 + DigitRun(msg, d0) - 1)))

\* ------------------------------------------------------------------ state
VARIABLES
    request,       \* endpoint, xml_text, xml_file, indent_spaces of the request
    parser_msg,    \* str(e) of the exception the safe parser raises, if it does
    lib_raises,    \* whether the transform's library call raises on this input
    pc,            \* how far the handler has come
    raw,           \* the handler's raw
    raw_stripped,  \* raw.strip()
    calls,         \* the parsers the handler has called, in order
    response       \* the JSONResponse returned: status and body

vars == <<request, parser_msg, lib_raises, pc, raw, raw_stripped, calls, response>>

Txt(toks, pad) == [toks |-> toks, pad |-> pad]

\* Form(None), File(None): a field that was not sent
NoText == [present |-> FALSE, toks |-> <<>>, pad |-> 0]
NoFile == [present |-> FALSE, filename |-> "", toks |-> <<>>, pad |-> 0]
TextField(toks, pad) == [present |-> TRUE, toks |-> toks, pad |-> pad]
FileField(filename, toks, pad) ==
    [present |-> TRUE, filename |-> filename, toks |-> toks, pad |-> pad]

Request(endpoint, xml_text, xml_file, indent_spaces) ==
    [endpoint |-> endpoint, xml_text |-> xml_text, xml_file |-> xml_file,
     indent_spaces |-> indent_spaces]

NoResponse == [status |-> 0, body |-> JNull]
Response(status, body) == [status |-> status, body |-> body]

\* status_code=400 left out
ErrorResponse200(msg) == Response(200, JMap(<<Pair("error", msg)>>))

\* JSONResponse({"error": ...}, status_code=400)
ErrorResponse(msg) == Response(400, JMap(<<Pair("error", msg)>>))
\* JSONResponse({"error": ..., "line": line}, status_code=400)
ParseErrorResponse(msg, line) ==
    Response(400, JMap(<<Pair("error", msg), Pair("line", line)>>))

\* the upload taken whether it has a name or not
FileGivenUnnamed(req) == req.xml_file.present

\* xml_file and getattr(xml_file, "filename", None)
FileGiven(req) == req.xml_file.present /\ req.xml_file.filename # ""

MissingText(endpoint) ==
    IF endpoint = "format" THEN "No XML provided. Paste XML or upload an .xml file."
    ELSE "No XML provided."

\* the comparison written >=
TooLargeInclusive(n) == n >= MAX_XML_BYTES

\* len(...) > MAX_XML_BYTES
TooLarge(n) == n > MAX_XML_BYTES

\* ---------------------------------------------------------------- actions
\* "pick source": the named upload, else the inline text, else an error; the
\* size check of the source picked.
ResolveInput ==
    /\ pc = "received"
    /\ IF FileGiven(request)
       THEN LET contents == Txt(request.xml_file.toks, request.xml_file.pad) IN
            IF TooLarge(ByteLen(contents))
            THEN /\ response' = ErrorResponse(
                                    JMsg("File too large", ByteLen(contents), <<>>))
                 /\ pc' = "done"
                 /\ raw' = raw
            ELSE /\ raw' = Txt(DecodeUpload(contents.toks), contents.pad)
                 /\ pc' = "resolved"
                 /\ response' = response
       ELSE IF request.xml_text.present
       THEN /\ raw' = Txt(request.xml_text.toks, request.xml_text.pad)
            /\ IF TooLarge(ByteLen(raw'))
               THEN /\ response' = ErrorResponse(
                                       JMsg("Text too large", ByteLen(raw'), <<>>))
                    /\ pc' = "done"
               ELSE /\ pc' = "resolved"
                    /\ response' = response
       ELSE /\ response' = ErrorResponse(
                               JMsg(MissingText(request.endpoint), 0, <<>>))
            /\ pc' = "done"
            /\ raw' = raw
    /\ UNCHANGED <<request, parser_msg, lib_raises, raw_stripped, calls>>

\* raw.strip() and the check that something is left
StripInput ==
    /\ pc = "resolved"
    /\ raw_stripped' = Strip(raw)
    /\ IF raw_stripped' = <<>>
       THEN /\ response' = ErrorResponse(JMsg("Empty XML content.", 0, <<>>))
            /\ pc' = "done"
       ELSE /\ pc' = "stripped"
            /\ response' = response
    /\ UNCHANGED <<request, parser_msg, lib_raises, raw, calls>>

\* defused_et.fromstring(raw_stripped.encode("utf-8")) and its except branch
SafeValidate ==
    /\ pc = "stripped"
    /\ calls' = Append(calls, "defused_et.fromstring")
    /\ IF SafeParseOk(EncodeUtf8(raw_stripped))
       THEN /\ pc' = "validated"
            /\ response' = response
       ELSE /\ response' = ParseErrorResponse(
                               JMsg("XML parse error", 0, Str(parser_msg)),
                               extract_error_line(parser_msg))
            /\ pc' = "done"
    /\ UNCHANGED <<request, parser_msg, lib_raises, raw, raw_stripped>>

\* xml_format after the validation: minidom, the indentation, the blank lines
FormatTransform ==
    /\ pc = "validated"
    /\ request.endpoint = "format"
    /\ calls' = Append(calls, "minidom.parseString")
    /\ IF lib_raises \/ ~ParseBytes(EncodeUtf8(raw_stripped)).ok
       THEN response' = ErrorResponse(JMsg("Failed to pretty-print XML", 0, <<>>))
       ELSE response' = Response(200,
                JMap(<<Pair("pretty",
                            JStr(PrettyPrint(raw_stripped, request.indent_spaces)))>>))
    /\ pc' = "done"
    /\ UNCHANGED <<request, parser_msg, lib_raises, raw, raw_stripped>>

\* xml_minify after the validation: ElementTree parses and writes compactly
MinifyTransform ==
    /\ pc = "validated"
    /\ request.endpoint = "minify"
    /\ calls' = Append(calls, "ET.fromstring")
    /\ IF lib_raises \/ ~ParseStr(raw_stripped).ok
       THEN response' = ErrorResponse(JMsg("XML minify error", 0, <<>>))
       ELSE response' = Response(200, JMap(<<Pair("pretty", JStr(Minify(raw_stripped)))>>))
    /\ pc' = "done"
    /\ UNCHANGED <<request, parser_msg, lib_raises, raw, raw_stripped>>

\* xml_convert after the validation: the dict of xmltodict is the body
ConvertTransform ==
    /\ pc = "validated"
    /\ request.endpoint = "convert"
    /\ calls' = Append(calls, "xmltodict.parse")
    /\ IF lib_raises \/ ~ParseStr(raw_stripped).ok
       THEN response' = ErrorResponse(JMsg("XML->JSON parse error", 0, <<>>))
       ELSE response' = Response(200, XmlToDict(raw_stripped))
    /\ pc' = "done"
    /\ UNCHANGED <<request, parser_msg, lib_raises, raw, raw_stripped>>

Next ==
    \/ ResolveInput
    \/ StripInput
    \/ SafeValidate
    \/ FormatTransform
    \/ MinifyTransform
    \/ ConvertTransform

\* ------------------------------------------------------------- the inputs
X      == Chr(120)
Agrave == Chr(224)
Item(cp) == <<Open("i", <<>>), Chr(cp), Close("i")>>

\* What the generated documents put between <r> and </r>:
\* <i>1</i>  <i>2</i>  <j k="v"/>  x  a space  a newline  <!--c-->  <i>  </i>
Chunks ==
    << Item(49), Item(50), <<Empty("j", <<118>>, 0)>>, <<X>>, <<Space>>,
       <<Newline>>, <<Comment>>, <<Open("i", <<>>)>>, <<Close("i")>> >>

\* The choices of at most n pieces out of a sequence of them.
Choices(pieces, n) == UNION {[1..k -> 1..Len(pieces)] : k \in 0..n}

Pick(pieces, f) == Concat([i \in 1..Len(f) |-> pieces[f[i]]])

InRoot(body) == <<Open("r", <<>>)>> \o body \o <<Close("r")>>

\* The roots of the second family: one chunk, text that is not ASCII, none.
FramedRoots ==
    {InRoot(Pick(Chunks, f)) : f \in Choices(Chunks, 1)}
        \cup {InRoot(<<Agrave>>), InRoot(<<X, Comment, Agrave>>), <<>>}

\* What comes before and after the root in the documents of the second family.
Prefixes ==
    { <<>>, <<Space>>, <<Chr(160)>>, <<Decl("", 0)>>, <<Decl("iso-8859-1", 0)>>,
      <<Doctype>>, <<Comment>> }
Suffixes == { <<>>, <<Newline>>, <<X>>, <<Comment>>, <<Empty("j", <<>>, 0)>> }

\* A few documents for the families that vary something else.
FewDocs ==
    { <<>>, <<Space, Newline>>, <<Chr(160)>>,
      InRoot(<<>>), InRoot(<<Agrave>>), InRoot(Item(49) \o Item(50)),
      InRoot(<<Open("i", <<>>)>>), <<Space>> \o InRoot(<<X>>) \o <<Newline>>,
      <<Doctype>> \o InRoot(<<>>),
      InRoot(<<Open("i", <<>>), Space, X, Empty("j", <<>>, 0), Close("i")>>) }

\* Uploads that are not UTF-8, or are: a lone A0, <r>A0</r>, <r>C3 A0</r>, C3
FewUploads ==
    FewDocs \cup
    { <<Byte(160)>>, InRoot(<<Byte(160)>>), InRoot(<<Byte(195), Byte(160)>>),
      <<Byte(195)>>, <<Space, Byte(160)>> \o InRoot(<<>>) }

\* The trailing runs of spaces that leave a text short, or bring it to the
\* limit, or one byte over it.
Pads(toks) ==
    {0, MAX_XML_BYTES - SumBytes(toks), MAX_XML_BYTES - SumBytes(toks) + 1}

Endpoints == {"format", "minify", "convert"}

IndentValues == {-1, 0, 1, 2, 3, 4, 5, 7}

\* m i s m a t c h e d   t a g :   l i n e   1 ,   c o l u m n   8
ExpatMsg ==
    <<109, 105, 115, 109, 97, 116, 99, 104, 101, 100, 32, 116, 97, 103, 58, 32,
      108, 105, 110, 101, 32, 49, 44, 32, 99, 111, 108, 117, 109, 110, 32, 56>>

\* The pieces of the generated diagnostics:
\* line  LiNE  a space  a newline  7  x  "line 42"  "Line  3"
MsgChunks ==
    << <<108, 105, 110, 101>>, <<76, 105, 78, 69>>, <<32>>, <<10>>, <<55>>, <<120>>,
       <<108, 105, 110, 101, 32, 52, 50>>, <<76, 105, 110, 101, 32, 32, 51>> >>

Arrives(req, msg, raises) ==
    /\ request = req
    /\ parser_msg = msg
    /\ lib_raises = raises

\* Every document of the bound, by inline text, on every endpoint.
StructureInputs ==
    \E e \in Endpoints, f \in Choices(Chunks, MaxBody) :
        Arrives(Request(e, TextField(InRoot(Pick(Chunks, f)), 0), NoFile, 4),
                ExpatMsg, FALSE)

\* Prologs, epilogs and documents without a root.
FramedInputs ==
    \E e \in Endpoints, pre \in Prefixes, suf \in Suffixes, core \in FramedRoots :
        Arrives(Request(e, TextField(pre \o core \o suf, 0), NoFile, 4),
                ExpatMsg, FALSE)

\* The sources: text, named upload, unnamed upload, both, none; at the limit.
TextInputs ==
    \E e \in Endpoints, d \in FewDocs :
        \E p \in Pads(d), f \in {NoFile, FileField("", InRoot(<<>>), 0)} :
            Arrives(Request(e, TextField(d, p), f, 4), ExpatMsg, FALSE)

UploadInputs ==
    \E e \in Endpoints, d \in FewUploads :
        \E p \in Pads(d),
           t \in {NoText, TextField(<<>>, 0), TextField(InRoot(<<>>), MAX_XML_BYTES)} :
            Arrives(Request(e, t, FileField("a.xml", d, p), 4), ExpatMsg, FALSE)

MissingInputs ==
    \E e \in Endpoints, f \in {NoFile, FileField("", InRoot(<<>>), 0)} :
        Arrives(Request(e, NoText, f, 4), ExpatMsg, FALSE)

\* The indentation widths a client may ask for.
IndentInputs ==
    \E i \in IndentValues, f \in Choices(Chunks, MaxBody - 1) :
        Arrives(Request("format", TextField(InRoot(Pick(Chunks, f)), 0), NoFile, i),
                ExpatMsg, FALSE)

\* The diagnostics the safe parser may give (they can quote the document).
MessageInputs ==
    \E e \in Endpoints, f \in Choices(MsgChunks, MaxMsg) :
        Arrives(Request(e, TextField(InRoot(<<Open("i", <<>>)>>), 0), NoFile, 4),
                Pick(MsgChunks, f), FALSE)

\* The transform's library call raises (a RecursionError on deep nesting).
RaisingInputs ==
    \E e \in Endpoints, d \in FewDocs :
        Arrives(Request(e, TextField(d, 0), NoFile, 4), ExpatMsg, TRUE)

Init ==
    /\ \/ StructureInputs
       \/ FramedInputs
       \/ TextInputs
       \/ UploadInputs
       \/ MissingInputs
       \/ IndentInputs
       \/ MessageInputs
       \/ RaisingInputs
    /\ pc = "received"
    /\ raw = Txt(<<>>, 0)
    /\ raw_stripped = <<>>
    /\ calls = <<>>
    /\ response = NoResponse

Spec == Init /\ [][Next]_vars

\* ------------------------------------------------------------ properties
Done == pc = "done"

\* The request read as the specification reads it.
NamedUpload   == request.xml_file.present /\ request.xml_file.filename # ""
InlineOnly    == ~NamedUpload /\ request.xml_text.present
Neither       == ~NamedUpload /\ ~request.xml_text.present
UploadBytes   == SumBytes(request.xml_file.toks) + request.xml_file.pad
InlineBytes   == SumBytes(request.xml_text.toks) + request.xml_text.pad
MeasuredBytes == IF NamedUpload THEN UploadBytes ELSE InlineBytes
\* the characters of the input picked, without its trailing run of spaces
PickedChars   ==
    IF NamedUpload THEN DecodeUpload(request.xml_file.toks) ELSE request.xml_text.toks
AsciiSpace(t) == t.k = "chr" /\ t.cp \in {9, 10, 13, 32}
WhitespaceOnly == ~Neither /\ \A i \in 1..Len(PickedChars) : AsciiSpace(PickedChars[i])

ErrorOf(resp) == Get(resp.body, "error")
IsError(resp, text) ==
    /\ resp.status = 400
    /\ resp.body.j = "map"
    /\ HasKey(resp.body, "error")
    /\ ErrorOf(resp).j = "msg"
    /\ ErrorOf(resp).text = text
IsSizeError(resp) == IsError(resp, "File too large") \/ IsError(resp, "Text too large")

\* C1: an input over 1,000,000 bytes (the bytes of the named upload, or the
\* UTF-8 bytes of the inline text when there is no named upload, measured
\* before stripping) gets 400 with an error that names the measured count,
\* on every endpoint, and no parser is ever called for it; an input of
\* exactly 1,000,000 bytes is not rejected for its size.
C1_SizeLimit ==
    /\ (~Neither /\ MeasuredBytes > 1000000) =>
          /\ calls = <<>>
          /\ raw_stripped = <<>>
          /\ pc \in {"received", "done"}
          /\ Done => /\ IsError(response, IF NamedUpload THEN "File too large"
                                                       ELSE "Text too large")
                     /\ ErrorOf(response).n = MeasuredBytes
    /\ (Done /\ ~Neither /\ MeasuredBytes <= 1000000) => ~IsSizeError(response)

\* An inline text one byte over the limit whose character count is within it
\* has been rejected.
C1_Witness ==
    /\ Done
    /\ InlineOnly
    /\ InlineBytes = 1000001
    /\ Len(request.xml_text.toks) + request.xml_text.pad <= 1000000
    /\ IsError(response, "Text too large")

\* An upload of exactly the limit has been accepted and transformed.
C1_WitnessAtLimit ==
    /\ Done
    /\ NamedUpload
    /\ UploadBytes = 1000000
    /\ response.status = 200

\* C2 as stated: every empty or whitespace-only input gets 400 with
\* "Empty XML content.".
C2_EmptyForEveryInput ==
    (Done /\ WhitespaceOnly) => IsError(response, "Empty XML content.")

\* C2 as amended: every empty or whitespace-only input of at most 1,000,000
\* bytes gets 400 with "Empty XML content."; a larger one gets the size error.
C2_EmptyWithinLimit ==
    /\ (Done /\ WhitespaceOnly /\ MeasuredBytes <= 1000000) =>
          IsError(response, "Empty XML content.")
    /\ (Done /\ WhitespaceOnly /\ MeasuredBytes > 1000000) => IsSizeError(response)

\* A text of white space that is not empty, at the limit, has been answered.
C2_Witness ==
    /\ Done
    /\ WhitespaceOnly
    /\ PickedChars # <<>>
    /\ MeasuredBytes = 1000000
    /\ IsError(response, "Empty XML content.")

\* What the specification calls safe validation, on the stripped input.
NoEntityDeclared(toks) == \A i \in 1..Len(toks) : toks[i].k # "doctype"
Accepted(toks) == ParseBytes(EncodeUtf8(toks)).ok /\ NoEntityDeclared(toks)
TransformParsers == {"minidom.parseString", "ET.fromstring", "xmltodict.parse"}
IsParseError(resp) ==
    /\ IsError(resp, "XML parse error")
    /\ KeysOf(resp.body) = <<"error", "line">>

\* C9: the transform's own parser is called only after the safe parser, and
\* only on an input the safe parser has accepted; once the safe parser has
\* refused the input the request is over, answered with the parse error, and
\* no transform's parser has been called.
C9_ValidationFirst ==
    /\ \A i \in 1..Len(calls) :
          calls[i] \in TransformParsers =>
              /\ i = 2
              /\ calls[1] = "defused_et.fromstring"
              /\ Accepted(raw_stripped)
    /\ (calls # <<>> /\ ~Accepted(raw_stripped)) =>
          /\ Done
          /\ calls = <<"defused_et.fromstring">>
          /\ IsParseError(response)

\* A document that declares an entity, which the transform's own parser would
\* take, has been refused before any transform.
C9_Witness ==
    /\ Done
    /\ ~NoEntityDeclared(raw_stripped)
    /\ ParseBytes(EncodeUtf8(raw_stripped)).ok
    /\ calls = <<"defused_et.fromstring">>
    /\ IsParseError(response)

\* The first check that fails, in the order size, missing input, empty input,
\* parse error, transform error; "none" when none fails.
PickedStripped == StripSeq(PickedChars)
FirstFailing ==
    IF ~Neither /\ MeasuredBytes > 1000000 THEN "size"
    ELSE IF Neither THEN "missing"
    ELSE IF PickedStripped = <<>> THEN "empty"
    ELSE IF ~Accepted(PickedStripped) THEN "parse"
    ELSE IF lib_raises THEN "transform"
    ELSE "none"

Reported(resp) ==
    IF resp.status = 200 THEN "none"
    ELSE IF IsSizeError(resp) THEN "size"
    ELSE IF IsError(resp, "No XML provided.")
            \/ IsError(resp, "No XML provided. Paste XML or upload an .xml file.")
         THEN "missing"
    ELSE IF IsError(resp, "Empty XML content.") THEN "empty"
    ELSE IF IsParseError(resp) THEN "parse"
    ELSE IF IsError(resp, "Failed to pretty-print XML") \/ IsError(resp, "XML minify error")
            \/ IsError(resp, "XML->JSON parse error")
         THEN "transform"
    ELSE "other"

\* C10: a named upload is the input and the inline text is then ignored, for
\* the size check too; without one the inline text is the input; with neither
\* the answer is the missing-input error, 400.  The answer reports the first
\* check that fails in the order size, missing input, empty input, parse
\* error, transform error, and no other.
C10_OneSourceFirstError ==
    /\ pc \notin {"received", "done"} => raw.toks = PickedChars
    /\ Done =>
          /\ Reported(response) = FirstFailing
          /\ Neither => response.status = 400
          /\ FirstFailing \notin {"size", "missing"} => raw.toks = PickedChars

\* A request with a named upload and an inline text over the limit has been
\* answered from the upload alone.
C10_Witness ==
    /\ Done
    /\ NamedUpload
    /\ request.xml_text.present
    /\ InlineBytes > 1000000
    /\ UploadBytes <= 1000000
    /\ response.status = 200

\* The line number the specification reads out of a diagnostic.
IsLetter(c, small) == c = small \/ c = small - 32
\* "line", in either case, at position p
LineAt(m, p) ==
    /\ p + 3 <= Len(m)
    /\ IsLetter(m[p], 108) /\ IsLetter(m[p + 1], 105)
    /\ IsLetter(m[p + 2], 110) /\ IsLetter(m[p + 3], 101)
Digit(m, q) == q >= 1 /\ q <= Len(m) /\ m[q] >= 48 /\ m[q] <= 57
Blank(m, q) == q >= 1 /\ q <= Len(m) /\ m[q] \in {9, 10, 11, 12, 13, 32}
\* the number written by the digits that start at q
LastDigit(m, q) == CHOOSE r \in q..Len(m) :
                      (\A k \in q..r : Digit(m, k)) /\ ~Digit(m, r + 1)
RECURSIVE Power10(_)
Power10(n) == IF n = 0 THEN 1 ELSE 10 * Power10(n - 1)
RECURSIVE SumOver(_, _, _)
SumOver(m, q, r) ==
    IF q > r THEN 0 ELSE (m[q] - 48) * Power10(r - q) + SumOver(m, q + 1, r)
NumberAt(m, q) == SumOver(m, q, LastDigit(m, q))

\* "line", exactly one space, digits: where the digits start, 0 if not at p
OneSpaceDigits(m, p) ==
    IF LineAt(m, p) /\ Blank(m, p + 4) /\ m[p + 4] = 32 /\ Digit(m, p + 5)
    THEN p + 5 ELSE 0
\* "line", one or more white space characters, digits
SpacesDigits(m, p) ==
    IF LineAt(m, p) /\ \E q \in p + 5..Len(m) :
                          Digit(m, q) /\ \A k \in p + 4..q - 1 : Blank(m, k)
    THEN CHOOSE q \in p + 5..Len(m) : Digit(m, q) /\ \A k \in p + 4..q - 1 : Blank(m, k)
    ELSE 0

FailedValidation == Done /\ calls # <<>> /\ ~Accepted(raw_stripped)
LineField == Get(response.body, "line")

Keys == KeysOf(response.body)
ErrorShape ==
    /\ response.status = 400
    /\ response.body.j = "map"
    /\ Keys \in {<<"error">>, <<"error", "line">>}
    /\ ErrorOf(response).j = "msg" /\ ErrorOf(response).text # ""
    /\ Keys = <<"error", "line">> => LineField.j \in {"int", "null"}
PrettyShape ==
    /\ response.status = 200
    /\ response.body.j = "map"
    /\ Keys = <<"pretty">>
\* the name of the document's root element, read off its first tag
FirstTag(toks) ==
    toks[CHOOSE i \in 1..Len(toks) :
            toks[i].k \in {"open", "empty"}
            /\ \A h \in 1..i - 1 : toks[h].k \notin {"open", "empty"}].tag

\* C4 as stated: every response is {"pretty": result} with 200 or
\* {"error": string, "line"?} with 400, on the convert endpoint too.
C4_PrettyOrError == Done => (PrettyShape \/ ErrorShape)

\* C4 as amended: every response of /xml/format and /xml/minify is
\* {"pretty": string} with 200 or {"error": string, "line"?} with 400; every
\* response of /xml/convert is that error shape with 400, or with 200 the
\* converted mapping itself, whose one key is the root element's name.
C4_ShapeByEndpoint ==
    Done =>
        \/ ErrorShape
        \/ /\ request.endpoint \in {"format", "minify"}
           /\ PrettyShape
           /\ Get(response.body, "pretty").j = "str"
        \/ /\ request.endpoint = "convert"
           /\ response.status = 200
           /\ response.body.j = "map"
           /\ Keys = <<FirstTag(raw_stripped)>>

\* A conversion has succeeded: its body has the root's name as its one key.
C4_Witness ==
    /\ Done
    /\ request.endpoint = "convert"
    /\ response.status = 200
    /\ Keys = <<"r">>

\* The layout of the validated input at a width, and the answer at a width.
Layout(w) == DropBlankLines(ToPrettyXml(ParseBytes(EncodeUtf8(raw_stripped)).kids, w))
AnswerAt(w) ==
    IF FirstFailing = "none"
    THEN response = Response(200, JMap(<<Pair("pretty", JStr(Layout(w)))>>))
    ELSE response.status = 400 /\ Reported(response) = FirstFailing

\* C5: on /xml/format a requested width outside {2, 3, 4} gets the answer
\* that width 4 gets on the same input, and 2, 3 and 4 are the indentation
\* unit as they are.
C5_IndentFallback ==
    (Done /\ request.endpoint = "format") =>
        IF request.indent_spaces \in {2, 3, 4} THEN AnswerAt(request.indent_spaces)
        ELSE AnswerAt(4)

\* Width 7 has been asked for a document whose layout at 7 would differ.
C5_Witness ==
    /\ Done
    /\ request.endpoint = "format"
    /\ request.indent_spaces = 7
    /\ response.status = 200
    /\ Layout(7) # Layout(4)

\* Width 2 has been asked and used.
C5_WitnessTwo ==
    /\ Done
    /\ request.endpoint = "format"
    /\ request.indent_spaces = 2
    /\ response.status = 200
    /\ Layout(2) # Layout(4)

\* A valid XML string within the size limit: an input that is picked, is not
\* over the limit, is not empty and passes the safe validation.
ValidInput ==
    /\ ~Neither
    /\ MeasuredBytes <= 1000000
    /\ PickedStripped # <<>>
    /\ Accepted(PickedStripped)

PrettyField == Get(response.body, "pretty").s
Width == IF request.indent_spaces \in {2, 3, 4} THEN request.indent_spaces ELSE 4

\* The lines of a text, their leading spaces, and the nesting depth at the
\* start of a line: the start tags before it that are not yet closed.
LinesOf(text) == SplitLines(text, <<>>)
RECURSIVE Leading(_)
Leading(line) ==
    IF line # <<>> /\ Head(line) = Space THEN 1 + Leading(Tail(line)) ELSE 0
Count(line, k) == Cardinality({i \in 1..Len(line) : line[i].k = k})
RECURSIVE DepthBefore(_, _)
DepthBefore(lines, j) ==
    IF j <= 1 THEN 0
    ELSE DepthBefore(lines, j - 1)
            + Count(lines[j - 1], "open") - Count(lines[j - 1], "close")
NoBlankLine(text) ==
    /\ text # <<>>
    /\ text[Len(text)] # Newline
    /\ \A j \in 1..Len(LinesOf(text)) :
          \E i \in 1..Len(LinesOf(text)[j]) : ~AsciiSpace(LinesOf(text)[j][i])
\* what a line starts with after its leading spaces
StartOf(line) == line[Leading(line) + 1].k

\* C6 as stated: for every valid XML string within the limit /xml/format
\* returns 200 with a pretty field without empty or whitespace-only lines, in
\* which the leading spaces of every line are a multiple of the width (taken
\* here where the pretty-printer itself does not raise).
C6_EveryLineIndented ==
    (Done /\ request.endpoint = "format" /\ ValidInput /\ ~lib_raises) =>
        /\ PrettyShape
        /\ NoBlankLine(PrettyField)
        /\ \A j \in 1..Len(LinesOf(PrettyField)) :
              Leading(LinesOf(PrettyField)[j]) % Width = 0

\* C6 as amended: for every valid XML string within the limit /xml/format
\* returns 200, or 400 "Failed to pretty-print XML" when the pretty-printer
\* raises; the pretty field has no empty or whitespace-only line, and every
\* line that starts with a start tag, an empty-element tag or a comment has
\* exactly nesting depth times the width as its leading spaces.
C6_MarkupLinesIndented ==
    (Done /\ request.endpoint = "format" /\ ValidInput) =>
        IF lib_raises THEN IsError(response, "Failed to pretty-print XML")
        ELSE /\ PrettyShape
             /\ NoBlankLine(PrettyField)
             /\ \A j \in 1..Len(LinesOf(PrettyField)) :
                   StartOf(LinesOf(PrettyField)[j]) \in {"open", "empty", "comment"} =>
                       Leading(LinesOf(PrettyField)[j])
                           = DepthBefore(LinesOf(PrettyField), j) * Width

\* A document has been laid out that has an element two levels deep on a line
\* of its own and a line of text whose leading spaces are no multiple.
C6_Witness ==
    /\ Done /\ request.endpoint = "format" /\ ValidInput /\ response.status = 200
    /\ \E j \in 1..Len(LinesOf(PrettyField)) :
          /\ StartOf(LinesOf(PrettyField)[j]) = "empty"
          /\ DepthBefore(LinesOf(PrettyField), j) = 2
    /\ \E j \in 1..Len(LinesOf(PrettyField)) :
          Leading(LinesOf(PrettyField)[j]) % Width # 0

\* The structure of a document: its elements in order with their tags,
\* attributes and text, comments and white space set aside.
RECURSIVE Squeeze(_)
Squeeze(kids) ==
    IF kids = <<>> THEN <<>>
    ELSE LET n == Head(kids) IN
      IF n.t = "elem"
      THEN <<Elem(n.tag, n.attr, Squeeze(n.kids))>> \o Squeeze(Tail(kids))
      ELSE IF n.t = "text" /\ SelectSeq(n.data, LAMBDA c : ~AsciiSpace(c)) # <<>>
      THEN <<Text(SelectSeq(n.data, LAMBDA c : ~AsciiSpace(c)))>> \o Squeeze(Tail(kids))
      ELSE Squeeze(Tail(kids))
StructureOf(text) == Squeeze(ETKids(ParseStr(text).kids))

\* /xml/format on an inline text within the limit that it accepts
FormatAccepts(text) == StripSeq(text) # <<>> /\ Accepted(StripSeq(text))
Formatted(text) == PrettyPrint(StripSeq(text), 4)
MinifiedField == Get(response.body, "pretty").s
RoundTripAgrees ==
    /\ PrettyShape
    /\ FormatAccepts(MinifiedField)
    /\ StructureOf(Formatted(MinifiedField)) = StructureOf(Formatted(raw_stripped))

\* C7 as stated: for every valid XML string, /xml/format of the output of
\* /xml/minify is structurally equivalent (tags, attributes, text, order) to
\* /xml/format of the string itself (taken here where no library raises).
C7_RoundTrip ==
    (Done /\ request.endpoint = "minify" /\ ValidInput /\ ~lib_raises) => RoundTripAgrees

UnicodeDeclared ==
    ~(raw_stripped # <<>> /\ raw_stripped[1].k = "decl" /\ raw_stripped[1].tag # "")

\* C7 on the inputs that declare no encoding other than UTF-8: whenever
\* /xml/minify succeeds, /xml/format accepts its output and the result has the
\* same elements in the same order, with the same tags, attributes and text up
\* to white space, as /xml/format of the string.
C7_RoundTripUnicode ==
    (Done /\ request.endpoint = "minify" /\ ValidInput /\ ~lib_raises /\ UnicodeDeclared)
        => RoundTripAgrees

\* <?xml version="1.0" encoding="iso-8859-1"?><r>&#224;</r> as inline text has
\* been minified with its text kept, while /xml/format of the same string
\* reads the two bytes of the character as two characters.
C7_Witness ==
    /\ Done /\ request.endpoint = "minify" /\ ValidInput /\ response.status = 200
    /\ raw_stripped = <<Decl("iso-8859-1", 0)>> \o InRoot(<<Agrave>>)
    /\ StructureOf(MinifiedField) = <<Elem("r", <<>>, <<Text(<<Agrave>>)>>)>>
    /\ StructureOf(Formatted(raw_stripped))
          = <<Elem("r", <<>>, <<Text(<<Chr(195), Chr(160)>>)>>)>>

\* The element tree the conversion reads, and its parts.
ConvertedRoot == RootOf(ETKids(ParseStr(raw_stripped).kids))
ChildElems(n) == SelectSeq(n.kids, LAMBDA k : k.t = "elem")
TextOf(n) == Concat([i \in 1..Len(n.kids) |->
                        IF n.kids[i].t = "text" THEN n.kids[i].data ELSE <<>>])
Occurrences(n, tag) == SelectSeq(ChildElems(n), LAMBDA k : k.tag = tag)
TagsIn(n) == {ChildElems(n)[i].tag : i \in 1..Len(ChildElems(n))}
KeyCount(v, key) == Cardinality({i \in 1..Len(v.items) : v.items[i].key = key})

\* the text itself; null for an element without any
TextAsItIs(text)  == IF text = <<>> THEN JNull ELSE JStr(text)
\* the text without the white space around it; null when nothing is left
TextStripped(text) == IF StripSeq(text) = <<>> THEN JNull ELSE JStr(StripSeq(text))

\* A value agrees with an element: a childless element without attributes is
\* the scalar for its text, stripped or as it is; any other is a mapping in
\* which every child tag is one key, holding the child if the tag occurs once
\* and the list of its occurrences in document order if it occurs more often.
RECURSIVE AgreesWith(_, _, _)
AgreesWith(n, v, stripped) ==
    IF ChildElems(n) = <<>> /\ n.attr = <<>>
    THEN v = IF stripped THEN TextStripped(TextOf(n)) ELSE TextAsItIs(TextOf(n))
    ELSE /\ v.j = "map"
         /\ \A tag \in TagsIn(n) :
               LET os == Occurrences(n, tag) IN
               /\ KeyCount(v, tag) = 1
               /\ IF Len(os) = 1 THEN AgreesWith(os[1], Get(v, tag), stripped)
                  ELSE /\ Get(v, tag).j = "list"
                       /\ Len(Get(v, tag).items) = Len(os)
                       /\ \A i \in 1..Len(os) :
                             AgreesWith(os[i], Get(v, tag).items[i], stripped)

Converted ==
    Done /\ request.endpoint = "convert" /\ ValidInput /\ response.status = 200

\* C8 as stated: the root element is the one top-level key of the result, a
\* tag repeated among siblings is one list of its occurrences in document
\* order, and a childless element without attributes is its text.
C8_ListsAndText ==
    Converted =>
        /\ Keys = <<ConvertedRoot.tag>>
        /\ AgreesWith(ConvertedRoot, Get(response.body, ConvertedRoot.tag), FALSE)

\* C8 as amended: the root element is the one top-level key of the result, a
\* tag repeated among siblings is one list of its occurrences in document
\* order, and a childless element without attributes is its text without the
\* white space around it, null when that leaves nothing.
C8_ListsAndStrippedText ==
    Converted =>
        /\ Keys = <<ConvertedRoot.tag>>
        /\ AgreesWith(ConvertedRoot, Get(response.body, ConvertedRoot.tag), TRUE)

\* <r><i>1</i><i>2</i></r> has been converted to r -> i -> ["1", "2"].
C8_Witness ==
    /\ Converted
    /\ raw_stripped = InRoot(Item(49) \o Item(50))
    /\ response.body =
          JMap(<<Pair("r", JMap(<<Pair("i", JList(<<JStr(<<Chr(49)>>),
                                                    JStr(<<Chr(50)>>)>>))>>))>>)

====
